---- MODULE Spec2Model ----
(***************************************************************************)
(* Label-image conversion utilities of robotics-data-utils:                *)
(*   datasets/rgb_to_grayscale_labels.py  (colormap -> class-ID images)     *)
(*   datasets/remap_grayscale_labels.py   (class consolidation)             *)
(*   datasets/remap_rellis3d_labels.py    (class consolidation, fixed tree) *)
(* and the image extraction of ROS2/ros2_bag_extract_images.py.            *)
(*                                                                         *)
(* Python dicts are modelled as sequences of [k, v] records in insertion   *)
(* order with distinct keys; images as flat sequences of pixels; text      *)
(* lines as sequences of one-character strings.                            *)
(***************************************************************************)
EXTENDS Integers, Sequences, FiniteSets, TLC

VARIABLES
    script,          \* which program runs: "rgb" or "remap"
    np_raises,       \* numpy build: TRUE when an out-of-range Python int stored
                     \* into a uint8 array raises OverflowError, FALSE when it wraps
    colormap_file,   \* lines of the colormap text file
    colormap,        \* dict RGB triple -> class ID returned by load_colormap
    mapping_data,    \* what yaml.safe_load returned for the mapping file
    mapping,         \* dict old class ID -> new class ID built in main
    image,           \* decoded input image of the file being processed
    result,          \* image produced by process_image / remap_labels
    pc,              \* position of the program
    err,             \* exception that ended the run, "" when none
    fs,              \* the file system: path -> directory or file node
    output_dir,      \* the output root given on the command line
    subdirs,         \* --subdirs of remap_grayscale_labels.py
    listing_rev,     \* order in which the file system lists a directory
    subdirs_left,    \* subdirs the loop of process_images has not reached
    files_to_process,\* discovered input files not processed yet
    input_path,      \* the input file being processed
    run,             \* 1 for the first run of the command, 2 for the second...
    snap,            \* the file system when the current run started
    reads,           \* the files the current run has opened for reading
    workers,         \* remap_rellis3d_labels.py: the state of each process that
                     \* executes process_images on the shared file system
    messages,        \* ros2_bag_extract_images.py: what reader.messages() yields
    time_start,      \* --time_start, in milliseconds
    time_end,        \* --time_end, in milliseconds
    every_k,         \* --every_k
    cursor,          \* how many messages the loop has consumed
    seen_i,          \* the counter i of extract_images_from_bag
    saved            \* the file names passed to cv2.imwrite, in order

table_vars == <<script, np_raises, colormap_file, colormap, mapping_data, mapping>>

batch_vars == <<fs, output_dir, subdirs, listing_rev, subdirs_left, files_to_process,
                input_path, run, snap, reads>>

bag_vars == <<messages, time_start, time_end, every_k, cursor, seen_i, saved>>

\* what the label-image commands of a single process leave alone
other_vars == <<workers, bag_vars>>

vars == <<script, np_raises, colormap_file, colormap, mapping_data, mapping,
          image, result, pc, err, fs, output_dir, subdirs, listing_rev, subdirs_left,
          files_to_process, input_path, run, snap, reads, workers, messages,
          time_start, time_end, every_k, cursor, seen_i, saved>>

-----------------------------------------------------------------------------
(* Bounds of the model *)

\* longest colormap file, in lines
MaxLines == 2
\* largest image, in pixels
MaxPixels == 2
\* longest class-mapping specification, in entries
MaxEntries == 2
\* most files under the input root
MaxFiles == 2
\* how many times the same command is run
MaxRuns == 2

\* most messages in the bag
MaxMessages == 3
\* largest --every_k
MaxEveryK == 3

\* number of values of an unsigned 8-bit array element
U8 == 256

-----------------------------------------------------------------------------
(* Sequences and dicts *)

RECURSIVE SeqsUpTo(_, _)
\* all sequences over S of length 0..n
SeqsUpTo(S, n) ==
    IF n = 0 THEN {<<>>}
    ELSE LET shorter == SeqsUpTo(S, n - 1)
         IN shorter \cup {Append(s, x) : s \in {t \in shorter : Len(t) = n - 1}, x \in S}

HasKey(d, k) == \E i \in 1..Len(d) : d[i].k = k

Get(d, k) == d[CHOOSE i \in 1..Len(d) : d[i].k = k].v

Keys(d) == {d[i].k : i \in 1..Len(d)}

\* d[k] = v of a Python dict: an existing key keeps its position
DictSet(d, k, v) ==
    IF HasKey(d, k)
    THEN [i \in 1..Len(d) |-> IF d[i].k = k THEN [k |-> k, v |-> v] ELSE d[i]]
    ELSE Append(d, [k |-> k, v |-> v])

-----------------------------------------------------------------------------
(* Text: str.strip().split() and int() *)

Whitespace == {" ", "\t", "\n"}
Digits == {"0", "1", "2", "3", "4", "5", "6", "7", "8", "9"}

DigitVal(c) ==
    CASE c = "0" -> 0 [] c = "1" -> 1 [] c = "2" -> 2 [] c = "3" -> 3 [] c = "4" -> 4
      [] c = "5" -> 5 [] c = "6" -> 6 [] c = "7" -> 7 [] c = "8" -> 8 [] c = "9" -> 9

RECURSIVE SplitFrom(_, _, _)
\* tokens of line[i..], cur being the token under construction
SplitFrom(line, i, cur) ==
    IF i > Len(line)
    THEN IF cur = <<>> THEN <<>> ELSE <<cur>>
    ELSE IF line[i] \in Whitespace
         THEN IF cur = <<>> THEN SplitFrom(line, i + 1, <<>>)
              ELSE <<cur>> \o SplitFrom(line, i + 1, <<>>)
         ELSE SplitFrom(line, i + 1, Append(cur, line[i]))

\* line.strip().split(): the maximal runs of non-whitespace characters
Split(line) == SplitFrom(line, 1, <<>>)

\* int(tok) succeeds on an optional sign followed by one or more digits
IsInt(tok) ==
    LET body == IF Len(tok) > 0 /\ tok[1] \in {"+", "-"} THEN Tail(tok) ELSE tok
    IN Len(body) > 0 /\ \A i \in 1..Len(body) : body[i] \in Digits

RECURSIVE DigitsVal(_)
DigitsVal(ds) ==
    IF ds = <<>> THEN 0
    ELSE 10 * DigitsVal(SubSeq(ds, 1, Len(ds) - 1)) + DigitVal(ds[Len(ds)])

IntOf(tok) ==
    IF tok[1] = "-" THEN 0 - DigitsVal(Tail(tok))
    ELSE IF tok[1] = "+" THEN DigitsVal(Tail(tok))
    ELSE DigitsVal(tok)

-----------------------------------------------------------------------------
(* rgb_to_grayscale_labels.py: load_colormap *)

\* a bug: longer lines are accepted too
IsEntryLineAtLeast(parts) == Len(parts) >= 5

\* a line contributes an entry when it has exactly five tokens
IsEntryLine(parts) == Len(parts) = 5

\* the tokens int() is applied to on a five-token line
IntFields(parts) == {parts[1], parts[3], parts[4], parts[5]}

RECURSIVE LoadFrom(_, _, _)
\* the loop over the file's lines from line i on, cm being the dict so far
LoadFrom(lines, i, cm) ==
    IF i > Len(lines) THEN [ok |-> TRUE, colormap |-> cm]
    ELSE LET parts == Split(lines[i])
         IN IF ~IsEntryLine(parts) THEN LoadFrom(lines, i + 1, cm)
            ELSE IF \E t \in IntFields(parts) : ~IsInt(t)
                 THEN [ok |-> FALSE, colormap |-> <<>>]
                 ELSE LET class_id == IntOf(parts[1])
                          rgb == <<IntOf(parts[3]), IntOf(parts[4]), IntOf(parts[5])>>
                      IN LoadFrom(lines, i + 1, DictSet(cm, rgb, class_id))

load_colormap(lines) == LoadFrom(lines, 1, <<>>)

-----------------------------------------------------------------------------
(* Stores into a numpy uint8 array *)

InU8(v) == v >= 0 /\ v < U8

\* the value a uint8 element holds after a wrapping store of the integer v
WrapU8(v) == v % U8

-----------------------------------------------------------------------------
(* rgb_to_grayscale_labels.py: process_image *)

\* mask of one colormap entry: cv2 pixels are (B, G, R)
MaskRGB(px, rgb) == px[1] = rgb[3] /\ px[2] = rgb[2] /\ px[3] = rgb[1]

RECURSIVE PaintFrom(_, _, _, _)
\* the loop over colormap.items() from entry i on, out being grayscale_image
PaintFrom(img, cm, i, out) ==
    IF i > Len(cm) THEN out
    ELSE PaintFrom(img, cm, i + 1,
            [p \in 1..Len(img) |->
                IF MaskRGB(img[p], cm[i].k) THEN WrapU8(cm[i].v) ELSE out[p]])

\* [ok, image]: ok is FALSE when a store raised OverflowError
process_image(img, cm, raises) ==
    IF raises /\ \E i \in 1..Len(cm) : ~InU8(cm[i].v)
    THEN [ok |-> FALSE, image |-> <<>>]
    ELSE [ok |-> TRUE,
          image |-> PaintFrom(img, cm, 1, [p \in 1..Len(img) |-> 0])]

-----------------------------------------------------------------------------
(* remap_grayscale_labels.py / remap_rellis3d_labels.py: the mapping built in main *)

\* a bug: an old ID keeps the first ID it was given
AssignOldKeepFirst(m, old_class, new_class_id) ==
    IF HasKey(m, old_class) THEN m ELSE DictSet(m, old_class, new_class_id)

\* mapping[old_class] = new_class_id
AssignOld(m, old_class, new_class_id) == DictSet(m, old_class, new_class_id)

RECURSIVE AssignAll(_, _, _, _)
\* the inner loop over old_classes from position j on
AssignAll(old_classes, j, m, new_class_id) ==
    IF j > Len(old_classes) THEN m
    ELSE AssignAll(old_classes, j + 1, AssignOld(m, old_classes[j], new_class_id),
                   new_class_id)

RECURSIVE BuildFrom(_, _, _, _)
\* the outer loop over mapping_data.items() from entry i on
BuildFrom(items, i, m, new_class_id) ==
    IF i > Len(items) THEN m
    ELSE BuildFrom(items, i + 1, AssignAll(items[i].v, 1, m, new_class_id),
                   new_class_id + 1)

\* [ok, mapping]: None has no .items(), which raises AttributeError
BuildMapping(data) ==
    IF data.none THEN [ok |-> FALSE, mapping |-> <<>>]
    ELSE [ok |-> TRUE, mapping |-> BuildFrom(data.items, 1, <<>>, 0)]

-----------------------------------------------------------------------------
(* remap_labels *)

\* a bug: the output starts as the input cast to uint8
CopyLike(img) == [p \in 1..Len(img) |-> WrapU8(img[p])]

\* np.zeros_like(image, dtype=np.uint8)
ZerosLike(img) == [p \in 1..Len(img) |-> 0]

RECURSIVE RemapCascadingFrom(_, _, _, _)
\* a bug: a pixel an earlier entry has remapped is compared by its new value
RemapCascadingFrom(img, m, i, out) ==
    IF i > Len(m) THEN out
    ELSE RemapCascadingFrom(img, m, i + 1,
            [p \in 1..Len(img) |->
                IF \/ img[p] = m[i].k
                   \/ out[p] = m[i].k /\ \E j \in 1..(i - 1) : img[p] = m[j].k
                THEN WrapU8(m[i].v) ELSE out[p]])

RECURSIVE RemapFrom(_, _, _, _)
\* the loop over mapping.items() from entry i on, out being remapped_image
RemapFrom(img, m, i, out) ==
    IF i > Len(m) THEN out
    ELSE RemapFrom(img, m, i + 1,
            [p \in 1..Len(img) |->
                IF img[p] = m[i].k THEN WrapU8(m[i].v) ELSE out[p]])

\* [ok, image]: ok is FALSE when a store raised OverflowError
remap_labels(img, m, raises) ==
    IF raises /\ \E i \in 1..Len(m) : ~InU8(m[i].v)
    THEN [ok |-> FALSE, image |-> <<>>]
    ELSE [ok |-> TRUE, image |-> RemapFrom(img, m, 1, ZerosLike(img))]

-----------------------------------------------------------------------------
(* Inputs of the single-image runs *)

RECURSIVE Join(_)
\* the tokens separated by single spaces
Join(toks) ==
    IF toks = <<>> THEN <<>>
    ELSE IF Len(toks) = 1 THEN toks[1]
    ELSE toks[1] \o <<" ">> \o Join(Tail(toks))

SampleLines ==
    { Join(<< <<"0">>, <<"b", "g">>, <<"0">>, <<"0">>, <<"0">> >>),
      Join(<< <<"1">>, <<"w">>, <<"0">>, <<"0">>, <<"1">> >>),
      Join(<< <<"2">>, <<"p">>, <<"0">>, <<"0">>, <<"1">> >>),
      Join(<< <<"0", "1">>, <<"r">>, <<"1">>, <<"0">>, <<"0">> >>),
      Join(<< <<"3", "0", "0">>, <<"h">>, <<"1">>, <<"0">>, <<"0">> >>),
      Join(<< <<"3">>, <<"a">>, <<"b">>, <<"0">>, <<"0">>, <<"1">> >>),
      Join(<< <<"1">>, <<"0">>, <<"0">>, <<"1">> >>),
      <<>>,
      Join(<< <<"x">>, <<"w">>, <<"0">>, <<"0">>, <<"1">> >>),
      Join(<< <<"1">>, <<"w">>, <<"0">>, <<"x">>, <<"1">> >>),
      <<" ", "2", " ", " ", "w", "\t", "1", " ", "0", " ", "0", " ", "\n">> }

\* sample (B, G, R) pixels as cv2.imread returns them
SamplePixelsBGR == { <<0, 0, 0>>, <<1, 0, 0>>, <<0, 0, 1>> }

\* sample pixel values of a class-ID image (8-bit and 16-bit)
SamplePixels == { 0, 1, 6, 262 }

\* sample lists of original class IDs of a class-mapping specification
SampleOldLists == { <<>>, <<0>>, <<1>>, <<6>>, <<0, 1>>, <<1, 6>>, <<6, 0>> }

ClassNames == <<"water", "obstacle", "grass", "sky">>

\* the specification of the module docstring: water: [6, 31], obstacle: [15, 34]
ExampleMappingData ==
    [none |-> FALSE,
     items |-> << [k |-> "water", v |-> <<6, 31>>], [k |-> "obstacle", v |-> <<15, 34>>] >>]

\* the dicts yaml.safe_load returns: distinct names, in file order
SampleMappingData ==
    { [none |-> FALSE,
       items |-> [i \in 1..Len(ls) |-> [k |-> ClassNames[i], v |-> ls[i]]]] :
        ls \in SeqsUpTo(SampleOldLists, MaxEntries) }
    \cup { [none |-> TRUE, items |-> <<>>], ExampleMappingData }

Images(pixels) == SeqsUpTo(pixels, MaxPixels) \ {<<>>}

-----------------------------------------------------------------------------
(* Single-image runs: load the table, convert one image *)

InitPure ==
    /\ script \in {"rgb", "remap"}
    /\ np_raises \in (IF script = "rgb" THEN BOOLEAN ELSE {FALSE})
    /\ colormap_file \in (IF script = "rgb" THEN SeqsUpTo(SampleLines, MaxLines) ELSE {<<>>})
    /\ mapping_data \in (IF script = "remap" THEN SampleMappingData
                         ELSE {[none |-> FALSE, items |-> <<>>]})
    /\ image \in (IF script = "rgb" THEN Images(SamplePixelsBGR) ELSE Images(SamplePixels))
    /\ colormap = <<>>
    /\ mapping = <<>>
    /\ result = <<>>
    /\ pc = "start"
    /\ err = ""
    /\ fs = <<>>
    /\ output_dir = <<>>
    /\ subdirs = <<>>
    /\ listing_rev = FALSE
    /\ subdirs_left = <<>>
    /\ files_to_process = <<>>
    /\ input_path = <<>>
    /\ run = 1
    /\ snap = <<>>
    /\ reads = {}
    /\ workers = <<>>
    /\ messages = <<>>
    /\ time_start = 0
    /\ time_end = 0
    /\ every_k = 1
    /\ cursor = 0
    /\ seen_i = 0
    /\ saved = <<>>

\* colormap = load_colormap(colormap_file)
LoadColormap ==
    /\ pc = "start" /\ script = "rgb"
    /\ LET r == load_colormap(colormap_file)
       IN IF r.ok
          THEN colormap' = r.colormap /\ pc' = "loaded" /\ err' = ""
          ELSE colormap' = colormap /\ pc' = "failed" /\ err' = "ValueError"
    /\ UNCHANGED <<script, np_raises, colormap_file, mapping_data, mapping, image, result>>
    /\ UNCHANGED batch_vars
    /\ UNCHANGED other_vars

\* the loop of main that turns mapping_data into mapping
BuildMappingStep ==
    /\ pc = "start" /\ script = "remap"
    /\ LET r == BuildMapping(mapping_data)
       IN IF r.ok
          THEN mapping' = r.mapping /\ pc' = "loaded" /\ err' = ""
          ELSE mapping' = mapping /\ pc' = "failed" /\ err' = "AttributeError"
    /\ UNCHANGED <<script, np_raises, colormap_file, colormap, mapping_data, image, result>>
    /\ UNCHANGED batch_vars
    /\ UNCHANGED other_vars

\* grayscale_image = process_image(input_path, colormap)
ProcessImage ==
    /\ pc = "loaded" /\ script = "rgb"
    /\ LET r == process_image(image, colormap, np_raises)
       IN IF r.ok
          THEN result' = r.image /\ pc' = "done" /\ err' = ""
          ELSE result' = result /\ pc' = "failed" /\ err' = "OverflowError"
    /\ UNCHANGED <<table_vars, image, batch_vars>>
    /\ UNCHANGED other_vars

\* remapped_image = remap_labels(image, mapping)
RemapLabels ==
    /\ pc = "loaded" /\ script = "remap"
    /\ LET r == remap_labels(image, mapping, np_raises)
       IN IF r.ok
          THEN result' = r.image /\ pc' = "done" /\ err' = ""
          ELSE result' = result /\ pc' = "failed" /\ err' = "OverflowError"
    /\ UNCHANGED <<table_vars, image, batch_vars>>
    /\ UNCHANGED other_vars

NextPure == LoadColormap \/ BuildMappingStep \/ ProcessImage \/ RemapLabels

SpecPure == InitPure /\ [][NextPure]_vars

-----------------------------------------------------------------------------
(* Properties of the single-image runs *)

Range(seq) == {seq[i] : i \in 1..Len(seq)}

\* the RGB triple of a cv2 (B, G, R) pixel
RGBOf(px) == <<px[3], px[2], px[1]>>

\* load_colormap returned a table
ColormapLoaded == script = "rgb" /\ pc # "start" /\ err # "ValueError"

\* C1: for every colormap load_colormap produced, with non-negative class IDs,
\* process_image returns an image of the input's size in which a pixel whose
\* RGB triple is a key holds the class ID of that key and any other pixel holds 0.
C1_ColormapLookup ==
    (ColormapLoaded /\ pc \in {"done", "failed"}
        /\ \A i \in 1..Len(colormap) : colormap[i].v >= 0)
    => /\ pc = "done"
       /\ Len(result) = Len(image)
       /\ \A p \in 1..Len(image) :
            result[p] = IF HasKey(colormap, RGBOf(image[p]))
                        THEN Get(colormap, RGBOf(image[p])) ELSE 0

\* C2: remap_labels outputs 0 at every pixel whose value is not a key of the mapping.
C2_BackgroundDefault ==
    (script = "remap" /\ pc = "done")
    => /\ Len(result) = Len(image)
       /\ \A p \in 1..Len(image) : ~HasKey(mapping, image[p]) => result[p] = 0

\* a pixel beyond 8 bits that is no key became 0 beside a pixel that was remapped
C2_Witness ==
    /\ script = "remap" /\ pc = "done"
    /\ \E p, q \in 1..Len(image) :
        /\ image[p] > 255 /\ ~HasKey(mapping, image[p]) /\ result[p] = 0
        /\ HasKey(mapping, image[q]) /\ result[q] # 0

\* the entries of the specification whose list holds old
EntriesWith(items, old) == {i \in 1..Len(items) : old \in Range(items[i].v)}

Max(S) == CHOOSE x \in S : \A y \in S : y <= x

\* C3: the table maps each old ID to the zero-based position of the last entry
\* whose list holds it, and has no other key; the docstring's example yields
\* {6: 0, 31: 0, 15: 1, 34: 1}.
C3_MappingTable ==
    (script = "remap" /\ pc \in {"loaded", "done"})
    => /\ Keys(mapping) = UNION {Range(mapping_data.items[i].v) :
                                    i \in 1..Len(mapping_data.items)}
       /\ \A old \in Keys(mapping) :
            Get(mapping, old) = Max(EntriesWith(mapping_data.items, old)) - 1
       /\ mapping_data = ExampleMappingData
            => mapping = << [k |-> 6, v |-> 0], [k |-> 31, v |-> 0],
                            [k |-> 15, v |-> 1], [k |-> 34, v |-> 1] >>

\* an old ID listed under two entries took the later entry's position
C3_Witness ==
    /\ script = "remap" /\ pc = "loaded"
    /\ \E old \in Keys(mapping) :
        /\ Cardinality(EntriesWith(mapping_data.items, old)) = 2
        /\ Get(mapping, old) = 1

\* the lines of the file with exactly five tokens
EntryLines(lines) == {i \in 1..Len(lines) : Len(Split(lines[i])) = 5}

LineRGB(line) ==
    <<IntOf(Split(line)[3]), IntOf(Split(line)[4]), IntOf(Split(line)[5])>>

LineClassId(line) == IntOf(Split(line)[1])

\* cm holds one entry per distinct triple of the five-token lines, with the
\* class ID of the last such line
TableOfEntryLines(lines, cm) ==
    /\ Cardinality(Keys(cm)) = Len(cm)
    /\ Keys(cm) = {LineRGB(lines[i]) : i \in EntryLines(lines)}
    /\ \A i \in EntryLines(lines) :
        (\A j \in EntryLines(lines) : j > i => LineRGB(lines[j]) # LineRGB(lines[i]))
        => Get(cm, LineRGB(lines[i])) = LineClassId(lines[i])

\* every five-token line has integers as its tokens 1, 3, 4 and 5
EntryLinesNumeric(lines) ==
    \A i \in EntryLines(lines) : \A t \in IntFields(Split(lines[i])) : IsInt(t)

\* C9 as stated: load_colormap returns without error, for every file, the table
\* of the five-token lines.
C9_LoadNeverFails ==
    (script = "rgb" /\ pc # "start")
    => /\ err # "ValueError"
       /\ TableOfEntryLines(colormap_file, colormap)

\* C9 amended: when every five-token line has integer tokens 1, 3, 4 and 5,
\* load_colormap returns without error the table of the five-token lines, the
\* other lines contributing nothing; otherwise it raises ValueError.
C9_LoadTable ==
    (script = "rgb" /\ pc # "start")
    => IF EntryLinesNumeric(colormap_file)
       THEN err # "ValueError" /\ TableOfEntryLines(colormap_file, colormap)
       ELSE pc = "failed" /\ err = "ValueError"

\* a line without five tokens was discarded and, of two lines with one triple,
\* the later one gave the class ID
C9_Witness ==
    /\ script = "rgb" /\ pc = "loaded"
    /\ Len(colormap) = 1
    /\ \/ /\ EntryLines(colormap_file) = {1, 2}
          /\ LineClassId(colormap_file[1]) # LineClassId(colormap_file[2])
          /\ colormap[1].v = LineClassId(colormap_file[2])
       \/ /\ EntryLines(colormap_file) = {2}
          /\ Len(Split(colormap_file[1])) > 5

\* the orders in which a dict of n entries can be iterated
Orders(n) == {f \in [1..n -> 1..n] : \A a, b \in 1..n : f[a] = f[b] => a = b}

\* the entries of m iterated in order f
Reordered(m, f) == [j \in 1..Len(m) |-> m[f[j]]]

\* C14: remap_labels substitutes simultaneously: a pixel whose value v is a key
\* becomes mapping[v], also when mapping[v] is a key itself; a pixel's output
\* is what remap_labels gives for that pixel alone; and the result is the same
\* for every iteration order of the mapping's entries.
C14_SimultaneousSubstitution ==
    (script = "remap" /\ pc = "done")
    => /\ Len(result) = Len(image)
       /\ \A p \in 1..Len(image) :
            /\ HasKey(mapping, image[p]) => result[p] = Get(mapping, image[p])
            /\ result[p] = remap_labels(<<image[p]>>, mapping, np_raises).image[1]
       /\ \A f \in Orders(Len(mapping)) :
            remap_labels(image, Reordered(mapping, f), np_raises).image = result

\* a pixel became an ID that is a key of a later entry with another ID
C14_Witness ==
    /\ script = "remap" /\ pc = "done"
    /\ \E p \in 1..Len(image) : \E a, b \in 1..Len(mapping) :
        /\ a < b
        /\ image[p] = mapping[a].k /\ result[p] = mapping[a].v
        /\ mapping[b].k = mapping[a].v /\ mapping[b].v # mapping[a].v

-----------------------------------------------------------------------------
(* The file system: paths are sequences of names *)

\* the input root given on the command line
input_dir == <<"in">>

\* every name, in the order a directory listing sorts them
NameOrder ==
    <<"a", "b", "c", "img.png", "in", "out", "pylon_camera_node_label_id", "readme.txt",
      "x.png", "y.PNG", "z.png">>

Rank(name) == CHOOSE i \in 1..Len(NameOrder) : NameOrder[i] = name

\* the part of a file name from its last dot on
Suffix(name) ==
    CASE name \in {"img.png", "x.png", "z.png"} -> ".png"
      [] name = "y.PNG" -> ".PNG"
      [] name = "readme.txt" -> ".txt"
      [] OTHER -> ""

\* str.lower() of a suffix
Lower(sfx) == IF sfx = ".PNG" THEN ".png" ELSE sfx

DirNode == [kind |-> "dir", ok |-> FALSE, full |-> TRUE, mode |-> "", px |-> <<>>]

\* a complete file; ok tells whether it decodes as an image
FileNode(ok, mode, px) == [kind |-> "file", ok |-> ok, full |-> TRUE, mode |-> mode, px |-> px]

\* a file opened for writing whose image is not written out yet
PartialNode == [kind |-> "file", ok |-> FALSE, full |-> FALSE, mode |-> "", px |-> <<>>]

Exists(f, path) == path \in DOMAIN f

IsDir(f, path) == Exists(f, path) /\ f[path].kind = "dir"

IsPrefix(pre, path) == Len(pre) <= Len(path) /\ SubSeq(path, 1, Len(pre)) = pre

\* path strictly below dir
Under(dir, path) == IsPrefix(dir, path) /\ Len(path) > Len(dir)

\* os.path.dirname
Dirname(path) == SubSeq(path, 1, Len(path) - 1)

\* os.path.basename
Basename(path) == path[Len(path)]

\* os.path.relpath(path, start) for a path below start
Relpath(path, start) == SubSeq(path, Len(start) + 1, Len(path))

\* os.path.join
PathJoin(a, b) == a \o b

Put(f, path, node) == [q \in DOMAIN f \cup {path} |-> IF q = path THEN node ELSE f[q]]

\* os.makedirs(path, exist_ok=True): path and its missing ancestors become directories
Makedirs(f, path) ==
    [q \in DOMAIN f \cup {SubSeq(path, 1, n) : n \in 1..Len(path)} |->
        IF q \in DOMAIN f THEN f[q] ELSE DirNode]

\* the entries of directory dir
Children(f, dir) == {q \in DOMAIN f : Len(q) = Len(dir) + 1 /\ IsPrefix(dir, q)}

RECURSIVE Listed(_, _)
\* the paths of S in listing order
Listed(S, rev) ==
    IF S = {} THEN <<>>
    ELSE LET first == CHOOSE q \in S : \A r \in S :
                        IF rev THEN Rank(Basename(r)) <= Rank(Basename(q))
                        ELSE Rank(Basename(q)) <= Rank(Basename(r))
         IN <<first>> \o Listed(S \ {first}, rev)

RECURSIVE Walk(_, _, _)
RECURSIVE WalkAll(_, _, _)
\* os.walk(top), top-down: the files of top, then each subdirectory in turn
Walk(f, top, rev) ==
    IF ~IsDir(f, top) THEN <<>>
    ELSE Listed({q \in Children(f, top) : f[q].kind = "file"}, rev)
         \o WalkAll(f, Listed({q \in Children(f, top) : f[q].kind = "dir"}, rev), rev)

WalkAll(f, dirs, rev) ==
    IF dirs = <<>> THEN <<>>
    ELSE Walk(f, Head(dirs), rev) \o WalkAll(f, Tail(dirs), rev)

\* file.endswith('.png') of rgb_to_grayscale_labels.py
EndsWithPng(path) == Suffix(Basename(path)) = ".png"

\* file.lower().endswith(".png") of remap_grayscale_labels.py
LowerEndsWithPng(path) == Lower(Suffix(Basename(path))) = ".png"

\* where the converted image of an input file goes
OutputPath(out, path) == PathJoin(out, Relpath(path, input_dir))

-----------------------------------------------------------------------------
(* Decoding and encoding image files *)

\* A file node holds three samples per pixel: (R, G, B) in mode "rgb", the
\* one sample repeated in mode "gray".

\* the stored pixels of a single-channel image
EncodeGray(img) == [p \in 1..Len(img) |-> <<img[p], img[p], img[p]>>]

\* cv2.imread(path, cv2.IMREAD_COLOR): (B, G, R) pixels; a single-channel
\* image is replicated over the three channels
ImreadColor(node) ==
    [p \in 1..Len(node.px) |-> <<node.px[p][3], node.px[p][2], node.px[p][1]>>]

\* np.array(Image.open(path)) of a single-channel image
PilArray(node) == [p \in 1..Len(node.px) |-> node.px[p][1]]

\* a bug: the destination is opened without truncating it
OpenForAppend(f, path) ==
    Put(f, path, IF Exists(f, path) /\ f[path].kind = "file"
                 THEN [PartialNode EXCEPT !.px = f[path].px]
                 ELSE PartialNode)

\* cv2.imwrite / Image.save open the destination, which truncates it
OpenForWrite(f, path) == Put(f, path, PartialNode)

\* the encoded image follows what the open left in the file
CloseWritten(f, path, img) ==
    Put(f, path, FileNode(TRUE, "gray", f[path].px \o EncodeGray(img)))

-----------------------------------------------------------------------------
(* Inputs of the batch runs *)

\* candidate files, relative to the input root
RelFiles ==
    { <<"x.png">>, <<"a", "b", "img.png">>, <<"a", "readme.txt">>, <<"a", "y.PNG">>,
      <<"c", "z.png">> }

IsImageName(rel) == LowerEndsWithPng(rel)

\* the image a decodable sample file holds: RGB annotations or class IDs
SampleImage(scr, rel) ==
    IF scr = "rgb"
    THEN CASE Basename(rel) = "x.png" -> << <<0, 0, 1>> >>
           [] Basename(rel) = "img.png" -> << <<1, 0, 0>>, <<0, 0, 0>> >>
           [] Basename(rel) = "z.png" -> << <<0, 0, 1>>, <<0, 1, 1>> >>
           [] OTHER -> << <<0, 0, 1>> >>
    ELSE CASE Basename(rel) = "x.png" -> EncodeGray(<<6>>)
           [] Basename(rel) = "img.png" -> EncodeGray(<<1, 6>>)
           [] Basename(rel) = "z.png" -> EncodeGray(<<0, 262>>)
           [] OTHER -> EncodeGray(<<6>>)

\* the input root holding files, those of bad being undecodable
InputTree(scr, files, bad) ==
    LET paths == {PathJoin(input_dir, r) : r \in files}
        dirs == {input_dir} \cup UNION {{SubSeq(q, 1, n) : n \in 1..(Len(q) - 1)} : q \in paths}
    IN [q \in dirs \cup paths |->
          IF q \notin paths THEN DirNode
          ELSE IF ~IsImageName(q) \/ Relpath(q, input_dir) \in bad
               THEN FileNode(FALSE, "", <<>>)
               ELSE FileNode(TRUE, IF scr = "rgb" THEN "rgb" ELSE "gray",
                             SampleImage(scr, Relpath(q, input_dir)))]

\* an output root that already holds a complete image from earlier work
WithStaleOutput(f) ==
    Put(Makedirs(f, <<"out">>), <<"out", "x.png">>, FileNode(TRUE, "gray", EncodeGray(<<9>>)))

BatchColormapFiles ==
    { << Join(<< <<"0">>, <<"b", "g">>, <<"0">>, <<"0">>, <<"0">> >>),
         Join(<< <<"1">>, <<"w">>, <<"0">>, <<"0">>, <<"1">> >>) >>,
      << Join(<< <<"3", "0", "0">>, <<"h">>, <<"1">>, <<"0">>, <<"0">> >>) >>,
      << Join(<< <<"x">>, <<"w">>, <<"0">>, <<"0">>, <<"1">> >>) >> }

BatchMappingData ==
    { [none |-> TRUE, items |-> <<>>],
      [none |-> FALSE, items |-> <<>>],
      [none |-> FALSE,
       items |-> << [k |-> "water", v |-> <<6>>], [k |-> "obstacle", v |-> <<0, 1>>] >>] }

-----------------------------------------------------------------------------
(* Batch runs: main of rgb_to_grayscale_labels.py and remap_grayscale_labels.py *)

Init ==
    /\ script \in {"rgb", "remap"}
    /\ np_raises \in BOOLEAN
    /\ colormap_file \in (IF script = "rgb" THEN BatchColormapFiles ELSE {<<>>})
    /\ mapping_data \in (IF script = "remap" THEN BatchMappingData
                         ELSE {[none |-> FALSE, items |-> <<>>]})
    /\ colormap = <<>>
    /\ mapping = <<>>
    /\ image = <<>>
    /\ result = <<>>
    /\ pc = "start"
    /\ err = ""
    /\ output_dir \in {<<"out">>, input_dir}
    /\ subdirs \in (IF script = "remap" THEN {<<"a">>, <<"c", "a">>} ELSE {<<>>})
    /\ listing_rev \in BOOLEAN
    /\ \E files \in SUBSET RelFiles, stale \in BOOLEAN :
        /\ Cardinality(files) <= MaxFiles
        /\ stale => output_dir # input_dir
        /\ \E bad \in SUBSET {r \in files : IsImageName(r)} :
            fs = IF stale THEN WithStaleOutput(InputTree(script, files, bad))
                 ELSE InputTree(script, files, bad)
    /\ subdirs_left = subdirs
    /\ files_to_process = <<>>
    /\ input_path = <<>>
    /\ run = 1
    /\ snap = fs
    /\ reads = {}
    /\ workers = <<>>
    /\ messages = <<>>
    /\ time_start = 0
    /\ time_end = 0
    /\ every_k = 1
    /\ cursor = 0
    /\ seen_i = 0
    /\ saved = <<>>

\* rgb_to_grayscale_labels.py: the os.walk loop that fills files_to_process
Discover ==
    /\ script = "rgb" /\ pc = "loaded"
    /\ files_to_process' = SelectSeq(Walk(fs, input_dir, listing_rev), EndsWithPng)
    /\ pc' = "next"
    /\ UNCHANGED <<table_vars, image, result, err, fs, output_dir, subdirs, listing_rev,
                   subdirs_left, input_path, run, snap, reads>>
    /\ UNCHANGED other_vars

\* remap_grayscale_labels.py: one turn of the loop over subdirs
NextSubdir ==
    /\ script = "remap" /\ pc \in {"loaded", "next"}
    /\ files_to_process = <<>> /\ subdirs_left # <<>>
    /\ LET subdir_path == PathJoin(input_dir, <<Head(subdirs_left)>>)
       IN IF ~Exists(fs, subdir_path)
          THEN fs' = fs /\ files_to_process' = <<>>
          ELSE /\ fs' = Makedirs(fs, output_dir)
               /\ files_to_process' =
                    SelectSeq(Walk(fs', subdir_path, listing_rev), LowerEndsWithPng)
    /\ subdirs_left' = Tail(subdirs_left)
    /\ pc' = "next"
    /\ UNCHANGED <<table_vars, image, result, err, output_dir, subdirs, listing_rev,
                   input_path, run, snap, reads>>
    /\ UNCHANGED other_vars

\* the next file: its output path and os.makedirs(dirname(output_path), exist_ok=True)
MakeDirs ==
    /\ pc = "next" /\ files_to_process # <<>>
    /\ input_path' = Head(files_to_process)
    /\ files_to_process' = Tail(files_to_process)
    /\ fs' = Makedirs(fs, Dirname(OutputPath(output_dir, input_path')))
    /\ pc' = "read"
    /\ UNCHANGED <<table_vars, image, result, err, output_dir, subdirs, listing_rev,
                   subdirs_left, run, snap, reads>>
    /\ UNCHANGED other_vars

\* the image is decoded and converted; an undecodable file raises
ConvertImage ==
    /\ pc = "read"
    /\ reads' = reads \cup {input_path}
    /\ IF ~fs[input_path].ok
       THEN /\ pc' = "failed"
            /\ err' = IF script = "rgb" THEN "AttributeError" ELSE "UnidentifiedImageError"
            /\ UNCHANGED <<image, result>>
       ELSE /\ image' = IF script = "rgb" THEN ImreadColor(fs[input_path])
                        ELSE PilArray(fs[input_path])
            /\ LET r == IF script = "rgb" THEN process_image(image', colormap, np_raises)
                        ELSE remap_labels(image', mapping, np_raises)
               IN IF r.ok
                  THEN result' = r.image /\ pc' = "write" /\ err' = ""
                  ELSE result' = result /\ pc' = "failed" /\ err' = "OverflowError"
    /\ UNCHANGED <<table_vars, fs, output_dir, subdirs, listing_rev, subdirs_left,
                   files_to_process, input_path, run, snap>>
    /\ UNCHANGED other_vars

\* cv2.imwrite / Image.save: the destination is opened
WriteBegin ==
    /\ pc = "write"
    /\ fs' = OpenForWrite(fs, OutputPath(output_dir, input_path))
    /\ pc' = "writing"
    /\ UNCHANGED <<table_vars, image, result, err, output_dir, subdirs, listing_rev,
                   subdirs_left, files_to_process, input_path, run, snap, reads>>
    /\ UNCHANGED other_vars

\* cv2.imwrite / Image.save: the encoded image is in the file
WriteEnd ==
    /\ pc = "writing"
    /\ fs' = CloseWritten(fs, OutputPath(output_dir, input_path), result)
    /\ pc' = "next"
    /\ UNCHANGED <<table_vars, image, result, err, output_dir, subdirs, listing_rev,
                   subdirs_left, files_to_process, input_path, run, snap, reads>>
    /\ UNCHANGED other_vars

\* the loops are over: the program returns
Finish ==
    /\ pc = "next" /\ files_to_process = <<>>
    /\ script = "remap" => subdirs_left = <<>>
    /\ pc' = "done"
    /\ UNCHANGED <<table_vars, image, result, err, batch_vars>>
    /\ UNCHANGED other_vars

\* the process is killed (SIGINT, SIGKILL, power loss) wherever it is
Interrupt ==
    /\ pc \notin {"done", "failed", "interrupted"}
    /\ pc' = "interrupted"
    /\ UNCHANGED <<table_vars, image, result, err, batch_vars>>
    /\ UNCHANGED other_vars

\* the same command line is run again on what the last run left
RunAgain ==
    /\ pc \in {"done", "failed"} /\ run < MaxRuns
    /\ run' = run + 1
    /\ snap' = fs
    /\ pc' = "start" /\ err' = ""
    /\ colormap' = <<>> /\ mapping' = <<>> /\ image' = <<>> /\ result' = <<>>
    /\ subdirs_left' = subdirs /\ files_to_process' = <<>> /\ input_path' = <<>>
    /\ reads' = {}
    /\ UNCHANGED <<script, np_raises, colormap_file, mapping_data, fs, output_dir,
                   subdirs, listing_rev>>
    /\ UNCHANGED other_vars

Next ==
    \/ LoadColormap
    \/ BuildMappingStep
    \/ Discover
    \/ NextSubdir
    \/ MakeDirs
    \/ ConvertImage
    \/ WriteBegin
    \/ WriteEnd
    \/ Finish
    \/ Interrupt
    \/ RunAgain

Spec == Init /\ [][Next]_vars

-----------------------------------------------------------------------------
(* Properties of the batch runs *)

\* the run ended by returning or by an exception, not by being killed
Terminal == pc \in {"done", "failed"}

\* the colormap or the class mapping could not be built
ConfigFailed ==
    /\ pc = "failed"
    /\ \/ script = "rgb" /\ err = "ValueError"
       \/ script = "remap" /\ err = "AttributeError"

SameTree(f, g) == DOMAIN f = DOMAIN g /\ \A q \in DOMAIN f : f[q] = g[q]

\* the files under the output root
OutFiles(f) == {q \in DOMAIN f : Under(output_dir, q) /\ f[q].kind = "file"}

\* the files and directories under the output root
OutEntries(f) == {q \in DOMAIN f : Under(output_dir, q)}

SameOutFiles(f, g) ==
    OutFiles(f) = OutFiles(g) /\ \A q \in OutFiles(f) : f[q] = g[q]

\* the input files the traversal policy of the script selects in f
Matched(f) ==
    {q \in DOMAIN f :
        /\ f[q].kind = "file"
        /\ IF script = "rgb"
           THEN Under(input_dir, q) /\ EndsWithPng(q)
           ELSE /\ \E i \in 1..Len(subdirs) : Under(PathJoin(input_dir, <<subdirs[i]>>), q)
                /\ LowerEndsWithPng(q)}

\* the mirrored path of input file q holds a complete single-channel image
Written(q) ==
    LET o == OutputPath(output_dir, q)
    IN Exists(fs, o) /\ fs[o].kind = "file" /\ fs[o].full /\ fs[o].ok
       /\ fs[o].mode = "gray" /\ Len(fs[o].px) = Len(snap[q].px)

EmptySpecification ==
    script = "remap" /\ (mapping_data.none \/ mapping_data.items = <<>>)

\* C4: with an empty class-mapping specification the run fails while the
\* mapping is built; it reads no image and writes no file or directory.
C4_EmptySpecAborts ==
    EmptySpecification
    => /\ pc \in {"start", "failed", "interrupted"}
       /\ reads = {}
       /\ SameTree(fs, snap)

\* C5: a source image that cannot be decoded is skipped: the run still ends
\* normally and every other selected image is written.
C5_PerFileFailureSkipped ==
    (Terminal /\ run = 1 /\ ~ConfigFailed /\ err # "OverflowError")
    => /\ pc = "done"
       /\ \A q \in Matched(snap) : snap[q].ok => Written(q)

\* C6: when no file under the input root is selected the run ends in a failure
\* and has created nothing under the output root.
C6_NoInputIsFatal ==
    (Terminal /\ ~ConfigFailed /\ Matched(snap) = {})
    => /\ pc = "failed"
       /\ OutEntries(fs) = OutEntries(snap)

\* C7 as stated: after a second run with the same arguments the files under
\* the output root are what they were after the first run (checked here for
\* the colormaps whose class IDs fit 8 bits).
C7_SecondRunSame ==
    (run >= 2 /\ Terminal /\ \A i \in 1..Len(colormap) : InU8(colormap[i].v))
    => SameOutFiles(fs, snap)

\* neither root is the other or lies inside it
RootsApart == ~IsPrefix(input_dir, output_dir) /\ ~IsPrefix(output_dir, input_dir)

\* C7 amended: the same, when neither root is the other or lies inside it.
C7_SecondRunSameApart ==
    (run >= 2 /\ Terminal /\ RootsApart) => SameOutFiles(fs, snap)

\* a second run rewrote an image into an output root apart from the input root
C7_Witness ==
    /\ run = 2 /\ pc = "done" /\ RootsApart
    /\ \E q \in reads : Written(q) /\ \E p \in 1..Len(fs[OutputPath(output_dir, q)].px) :
                                        fs[OutputPath(output_dir, q)].px[p][1] # 0

\* C8: after a run into an empty output root apart from the input root, the
\* files under the output root are exactly the mirrored paths of the selected
\* decodable images.
C8_MirroredExactly ==
    (run = 1 /\ Terminal /\ ~ConfigFailed /\ err # "OverflowError"
        /\ ~IsPrefix(input_dir, output_dir) /\ OutEntries(snap) = {})
    => /\ OutFiles(fs) = {OutputPath(output_dir, q) : q \in {m \in Matched(snap) : snap[m].ok}}
       /\ \A q \in Matched(snap) : snap[q].ok => Written(q)

\* C10: after an interruption every file under the output root is complete.
C10_NoPartialFile ==
    pc = "interrupted" => \A q \in OutFiles(fs) : fs[q].full

-----------------------------------------------------------------------------
(* remap_rellis3d_labels.py: process_images, executed by one process or by    *)
(* two processes at once on the same input and output roots                   *)

\* the fixed subdirectory of an experiment that holds its label images
label_subdir == "pylon_camera_node_label_id"

\* the processes that may execute process_images at the same time
Workers == {1, 2}

\* os.makedirs(path) without exist_ok: raises FileExistsError on an existing path
MakedirsRaises(f, path) == Exists(f, path)

\* experiment_dir of an entry of the input root
ExperimentDir(experiment) == PathJoin(experiment, <<label_subdir>>)

\* output_experiment_dir of an entry of the input root
OutputExperimentDir(out, experiment) ==
    PathJoin(out, <<Basename(experiment), label_subdir>>)

\* output_image_path of a file of experiment_dir
OutputImagePath(out, experiment, path) ==
    PathJoin(OutputExperimentDir(out, experiment), <<Basename(path)>>)

\* the mode bits and content Image.save leaves in a file another process has
\* completed meanwhile: the bytes of this image replace those at the same offsets
Overwritten(f, path, img) == Put(f, path, FileNode(TRUE, "gray", EncodeGray(img)))

\* candidate files, relative to the input root
UnitFiles ==
    { <<"a", label_subdir, "x.png">>, <<"a", label_subdir, "y.PNG">>,
      <<"a", label_subdir, "b", "img.png">>, <<"a", "z.png">>,
      <<"c", label_subdir, "z.png">>, <<"b", "readme.txt">>, <<"readme.txt">> }

\* the mapping file of the run
UnitMappingData ==
    [none |-> FALSE,
     items |-> << [k |-> "water", v |-> <<6>>], [k |-> "obstacle", v |-> <<0, 1>>] >>]

\* a process about to execute process_images
WorkerStart ==
    [pc |-> "check", err |-> "", experiments |-> <<>>, experiment |-> <<>>,
     files |-> <<>>, input_path |-> <<>>, result |-> <<>>]

InitUnits ==
    /\ script = "rellis3d"
    /\ np_raises = FALSE
    /\ colormap_file = <<>>
    /\ colormap = <<>>
    /\ mapping_data = UnitMappingData
    /\ mapping = BuildMapping(mapping_data).mapping
    /\ image = <<>>
    /\ result = <<>>
    /\ pc = "loaded"
    /\ err = ""
    /\ output_dir \in {<<"out">>, input_dir}
    /\ subdirs = <<>>
    /\ listing_rev \in BOOLEAN
    /\ \E files \in SUBSET UnitFiles, made \in BOOLEAN :
        /\ Cardinality(files) <= MaxFiles
        /\ \E bad \in SUBSET {r \in files : IsImageName(r)} :
            fs = IF made THEN Makedirs(InputTree("remap", files, bad), output_dir)
                 ELSE InputTree("remap", files, bad)
    /\ subdirs_left = <<>>
    /\ files_to_process = <<>>
    /\ input_path = <<>>
    /\ run = 1
    /\ snap = fs
    /\ reads = {}
    /\ workers \in {[w \in ws |-> WorkerStart] : ws \in {{1}, Workers}}
    /\ messages = <<>>
    /\ time_start = 0
    /\ time_end = 0
    /\ every_k = 1
    /\ cursor = 0
    /\ seen_i = 0
    /\ saved = <<>>

unit_frame == <<table_vars, image, result, pc, err, output_dir, subdirs, listing_rev,
                subdirs_left, files_to_process, input_path, run, snap, reads, bag_vars>>

\* if not os.path.exists(output_dir)
CheckOutputDir(w) ==
    /\ w \in DOMAIN workers
    /\ workers[w].pc = "check"
    /\ workers' = [workers EXCEPT ![w].pc =
                      IF Exists(fs, output_dir) THEN "list" ELSE "create"]
    /\ UNCHANGED <<fs, unit_frame>>

\* os.makedirs(output_dir)
MakeOutputDir(w) ==
    /\ w \in DOMAIN workers
    /\ workers[w].pc = "create"
    /\ IF MakedirsRaises(fs, output_dir)
       THEN /\ workers' = [workers EXCEPT ![w].pc = "failed",
                                          ![w].err = "FileExistsError"]
            /\ fs' = fs
       ELSE /\ workers' = [workers EXCEPT ![w].pc = "list"]
            /\ fs' = Makedirs(fs, output_dir)
    /\ UNCHANGED unit_frame

\* os.listdir(input_dir)
ListExperiments(w) ==
    /\ w \in DOMAIN workers
    /\ workers[w].pc = "list"
    /\ workers' = [workers EXCEPT ![w].pc = "experiment",
                      ![w].experiments = Listed(Children(fs, input_dir), listing_rev)]
    /\ UNCHANGED <<fs, unit_frame>>

\* one turn of the loop over the experiments, up to os.listdir(experiment_dir)
NextExperiment(w) ==
    /\ w \in DOMAIN workers
    /\ workers[w].pc = "experiment" /\ workers[w].experiments # <<>>
    /\ LET experiment == Head(workers[w].experiments)
       IN IF ~IsDir(fs, ExperimentDir(experiment))
          THEN /\ workers' = [workers EXCEPT ![w].experiments = Tail(@)]
               /\ fs' = fs
          ELSE /\ fs' = Makedirs(fs, OutputExperimentDir(output_dir, experiment))
               /\ workers' = [workers EXCEPT ![w].experiments = Tail(@),
                                 ![w].experiment = experiment,
                                 ![w].files = Listed(Children(fs', ExperimentDir(experiment)),
                                                     listing_rev),
                                 ![w].pc = "file"]
    /\ UNCHANGED unit_frame

\* one turn of the loop over the entries of experiment_dir
NextFile(w) ==
    /\ w \in DOMAIN workers
    /\ workers[w].pc = "file"
    /\ IF workers[w].files = <<>>
       THEN workers' = [workers EXCEPT ![w].pc = "experiment"]
       ELSE IF ~EndsWithPng(Head(workers[w].files))
            THEN workers' = [workers EXCEPT ![w].files = Tail(@)]
            ELSE workers' = [workers EXCEPT ![w].files = Tail(@),
                                ![w].input_path = Head(workers[w].files),
                                ![w].pc = "read"]
    /\ UNCHANGED <<fs, unit_frame>>

\* np.array(Image.open(input_image_path)) and remap_labels
OpenAndRemap(w) ==
    /\ w \in DOMAIN workers
    /\ workers[w].pc = "read"
    /\ LET node == fs[workers[w].input_path]
       IN IF node.kind # "file" \/ ~node.ok
          THEN workers' = [workers EXCEPT ![w].pc = "failed",
                              ![w].err = "UnidentifiedImageError"]
          ELSE workers' = [workers EXCEPT ![w].pc = "write",
                              ![w].result =
                                  remap_labels(PilArray(node), mapping, np_raises).image]
    /\ UNCHANGED <<fs, unit_frame>>

\* remapped_image.save: the destination is opened
SaveBegin(w) ==
    /\ w \in DOMAIN workers
    /\ workers[w].pc = "write"
    /\ fs' = OpenForWrite(fs, OutputImagePath(output_dir, workers[w].experiment,
                                              workers[w].input_path))
    /\ workers' = [workers EXCEPT ![w].pc = "writing"]
    /\ UNCHANGED unit_frame

\* remapped_image.save: the encoded image is in the file
SaveEnd(w) ==
    /\ w \in DOMAIN workers
    /\ workers[w].pc = "writing"
    /\ LET o == OutputImagePath(output_dir, workers[w].experiment, workers[w].input_path)
       IN fs' = IF fs[o].full THEN Overwritten(fs, o, workers[w].result)
                ELSE CloseWritten(fs, o, workers[w].result)
    /\ workers' = [workers EXCEPT ![w].pc = "file"]
    /\ UNCHANGED unit_frame

\* the loop over the experiments is over: process_images returns
Return(w) ==
    /\ w \in DOMAIN workers
    /\ workers[w].pc = "experiment" /\ workers[w].experiments = <<>>
    /\ workers' = [workers EXCEPT ![w].pc = "done"]
    /\ UNCHANGED <<fs, unit_frame>>

NextUnits ==
    \/ \E w \in Workers : CheckOutputDir(w)
    \/ \E w \in Workers : MakeOutputDir(w)
    \/ \E w \in Workers : ListExperiments(w)
    \/ \E w \in Workers : NextExperiment(w)
    \/ \E w \in Workers : NextFile(w)
    \/ \E w \in Workers : OpenAndRemap(w)
    \/ \E w \in Workers : SaveBegin(w)
    \/ \E w \in Workers : SaveEnd(w)
    \/ \E w \in Workers : Return(w)

SpecUnits == InitUnits /\ [][NextUnits]_vars

-----------------------------------------------------------------------------
(* Properties of the concurrent runs *)

\* C11: no process fails with FileExistsError because another process created
\* a shared output directory between its existence check and its creation.
C11_NoCreationRaceFailure ==
    \A w \in DOMAIN workers : workers[w].err # "FileExistsError"

-----------------------------------------------------------------------------
(* Properties of the run of a single process over the fixed layout *)

\* the immediate children of the input root when the run started
Units == Children(snap, input_dir)

\* the .png files directly inside the label subdirectory of unit u
LabelImages(u) ==
    {q \in DOMAIN snap :
        /\ Len(q) = Len(u) + 2 /\ IsPrefix(ExperimentDir(u), q)
        /\ snap[q].kind = "file" /\ EndsWithPng(q)}

\* <output_root>/u
OutputUnit(u) == PathJoin(output_dir, <<Basename(u)>>)

\* the entries at or below dir that the run created
CreatedAt(dir) == {q \in DOMAIN fs : IsPrefix(dir, q) /\ q \notin DOMAIN snap}

\* the files below dir that the run created or changed
WrittenUnder(dir) ==
    {q \in DOMAIN fs :
        /\ Under(dir, q) /\ fs[q].kind = "file"
        /\ (q \in DOMAIN snap => fs[q] # snap[q])}

\* a single process has returned from process_images or failed in it
UnitsRunOver == DOMAIN workers = {1} /\ workers[1].pc \in {"done", "failed"}

\* C13: after the run of a single process, for each immediate child u of the
\* input root: when u has no label subdirectory, nothing was created at or under
\* <output_root>/u and no error arose from u; otherwise every decodable .png
\* file directly inside the label subdirectory is written to
\* <output_root>/u/pylon_camera_node_label_id/<same name>, and no other file
\* under <output_root>/u was written.
C13_FixedLayoutMirrored ==
    UnitsRunOver
    => \A u \in Units :
        IF ~IsDir(snap, ExperimentDir(u))
        THEN /\ CreatedAt(OutputUnit(u)) = {}
             /\ workers[1].pc = "failed" => workers[1].experiment # u
        ELSE /\ \A q \in LabelImages(u) : snap[q].ok => Written(q)
             /\ WrittenUnder(OutputUnit(u))
                    \subseteq {OutputPath(output_dir, q) : q \in LabelImages(u)}

-----------------------------------------------------------------------------
(* ros2_bag_extract_images.py: extract_images_from_bag *)

\* Times are held in milliseconds: the float sec + nanosec / 10^9 of the code
\* is exact on the sample stamps.

\* the topic given on the command line
images_topic == "/camera/image"

\* time_end == -1.0: no end limit
NoEnd == -1000

\* timestamp = msg.header.stamp.sec + msg.header.stamp.nanosec / 10 ** 9
Timestamp(msg) == msg.sec * 1000 + msg.nanosec \div 1000000

\* the time range test: FALSE for a message the loop disregards
InTimeRange(msg, t_start, t_end) ==
    IF t_end = NoEnd THEN ~(t_start > Timestamp(msg))
    ELSE t_start <= Timestamp(msg) /\ Timestamp(msg) <= t_end

\* i % every_k != 1 is FALSE: the image is not skipped
IsKth(n, k) == n % k = 1

\* what the file name f"{sec}_{nanosec}.png" is made of
FileName(msg) == [sec |-> msg.sec, nanosec |-> msg.nanosec]

\* sample messages of the bag: four images and a message of another topic
SampleMessages ==
    { [topic |-> images_topic, sec |-> 0, nanosec |-> 0],
      [topic |-> images_topic, sec |-> 1, nanosec |-> 0],
      [topic |-> images_topic, sec |-> 1, nanosec |-> 500000000],
      [topic |-> images_topic, sec |-> 2, nanosec |-> 0],
      [topic |-> "/imu", sec |-> 1, nanosec |-> 0] }

InitBag ==
    /\ script = "bag"
    /\ np_raises = FALSE
    /\ colormap_file = <<>>
    /\ colormap = <<>>
    /\ mapping_data = [none |-> FALSE, items |-> <<>>]
    /\ mapping = <<>>
    /\ image = <<>>
    /\ result = <<>>
    /\ pc = "start"
    /\ err = ""
    /\ fs = <<>>
    /\ output_dir = <<"out">>
    /\ subdirs = <<>>
    /\ listing_rev = FALSE
    /\ subdirs_left = <<>>
    /\ files_to_process = <<>>
    /\ input_path = <<>>
    /\ run = 1
    /\ snap = <<>>
    /\ reads = {}
    /\ workers = <<>>
    /\ messages \in SeqsUpTo(SampleMessages, MaxMessages)
    /\ time_start \in {0, 1500}
    /\ time_end \in {NoEnd, 1500}
    /\ every_k \in 0..MaxEveryK
    /\ cursor = 0
    /\ seen_i = 0
    /\ saved = <<>>

bag_frame == <<table_vars, image, result, batch_vars, workers, messages, time_start,
               time_end, every_k>>

\* the message the loop is about to take from reader.messages()
NextMessage == messages[cursor + 1]

\* a message of another topic or outside the time range: continue
SkipMessage ==
    /\ pc = "start" /\ cursor < Len(messages)
    /\ \/ NextMessage.topic # images_topic
       \/ ~InTimeRange(NextMessage, time_start, time_end)
    /\ cursor' = cursor + 1
    /\ UNCHANGED <<pc, err, seen_i, saved, bag_frame>>

\* an image in the time range that the counter test skips: i += 1, continue;
\* every_k = 0 raises ZeroDivisionError
CountImage ==
    /\ pc = "start" /\ cursor < Len(messages)
    /\ NextMessage.topic = images_topic
    /\ InTimeRange(NextMessage, time_start, time_end)
    /\ IF every_k = 0 THEN TRUE ELSE ~IsKth(seen_i + 1, every_k)
    /\ cursor' = cursor + 1
    /\ seen_i' = seen_i + 1
    /\ IF every_k = 0 THEN pc' = "failed" /\ err' = "ZeroDivisionError"
       ELSE UNCHANGED <<pc, err>>
    /\ UNCHANGED <<saved, bag_frame>>

\* an image in the time range that passes the counter test: i += 1, cv2.imwrite
SaveImage ==
    /\ pc = "start" /\ cursor < Len(messages)
    /\ NextMessage.topic = images_topic
    /\ InTimeRange(NextMessage, time_start, time_end)
    /\ every_k # 0 /\ IsKth(seen_i + 1, every_k)
    /\ cursor' = cursor + 1
    /\ seen_i' = seen_i + 1
    /\ saved' = Append(saved, FileName(NextMessage))
    /\ UNCHANGED <<pc, err, bag_frame>>

\* reader.messages() is exhausted: the function returns
EndOfBag ==
    /\ pc = "start" /\ cursor = Len(messages)
    /\ pc' = "done"
    /\ UNCHANGED <<err, cursor, seen_i, saved, bag_frame>>

NextBag == SkipMessage \/ CountImage \/ SaveImage \/ EndOfBag

SpecBag == InitBag /\ [][NextBag]_vars

-----------------------------------------------------------------------------
(* Properties of the extraction *)

\* the images of the selected topic in the time range, in bag order
InRangeImages ==
    SelectSeq(messages, LAMBDA m : m.topic = images_topic
                                   /\ InTimeRange(m, time_start, time_end))

\* ceil(n / k)
CeilDiv(n, k) == (n + k - 1) \div k

\* C12: for every_k = k >= 1 the function saves the 1st, (k+1)-th, (2k+1)-th...
\* of the n images of the topic in the time range, ceil(n / k) images in all;
\* with every_k = 1 it saves every one of them.
C12_EveryKthSaved ==
    (script = "bag" /\ pc = "done" /\ every_k >= 1)
    => /\ Len(saved) = CeilDiv(Len(InRangeImages), every_k)
       /\ \A j \in 1..Len(saved) : saved[j] = FileName(InRangeImages[1 + (j - 1) * every_k])

=============================================================================
